---------------------------- MODULE Spec2Model ----------------------------
(***************************************************************************)
(* A model of the neocitizen API client (src/neocitizen/api.py) and its    *)
(* helper get_extension (src/neocitizen/utils.py).                         *)
(*                                                                         *)
(* Python strings that the code inspects character by character (paths,    *)
(* extensions, dir_on_server) are sequences of one-character strings.      *)
(* Python None is NoneStr for such a string, None for an opaque string     *)
(* (a credential) and NoneObj for a dict or an object.                     *)
(***************************************************************************)
EXTENDS Integers, Sequences, FiniteSets, TLC

VARIABLES
    pc,        \* position of the program: "new", "failed", "idle", a step of a running operation, or "done"
    args,      \* the constructor's arguments (api_key, username, password)
    env,       \* the process environment (NEOCITIES_API_KEY, _USERNAME, _PASSWORD)
    getenv,    \* the environment variables os.getenv has actually evaluated
    headers,   \* self.__headers
    auth,      \* self.__auth
    op,        \* the running (or last finished) operation and its arguments
    frame,     \* local variables of the running operation
    calls,     \* the network calls the running (or last finished) operation has made, in order
    result,    \* how the last finished operation ended: a return value or a raised exception
    local,     \* the local files and directories the running download_all works on
    site,      \* the directory the mock server of the tests serves (mock_server.py); untouched by the real transport
    success,   \* self.__success: the dict the client keeps and hands out as the response of delete_files([])
    cli        \* one invocation of the command line (cli.py): its arguments, the prompt's answer, what it has done

vars == <<pc, args, env, getenv, headers, auth, op, frame, calls, result, local, site, success, cli>>

-----------------------------------------------------------------------------
(* Bounds of the model.                                                    *)

MaxFileMap == 2
MaxListing == 2
MaxTree == 2
MaxFilenames == 2
MaxPath == 4
MaxCliFiles == 2
MaxSite == 2

-----------------------------------------------------------------------------
(* Python values.                                                          *)

None == "<None>"
NoneStr == <<"<None>">>
NoneObj == [none |-> TRUE]

\* Python truthiness of an Optional[str]: None and "" are falsy.
Truthy(x) == x # None /\ x # ""

\* Python's `a or b`: a when a is truthy, else b (b is not evaluated otherwise).
PyOr(a, b) == IF Truthy(a) THEN a ELSE b

-----------------------------------------------------------------------------
(* String helpers (strings are sequences of one-character strings).        *)

EndsWith(s, suffix) ==
    /\ Len(suffix) <= Len(s)
    /\ SubSeq(s, Len(s) - Len(suffix) + 1, Len(s)) = suffix

\* str.rfind(ch) as a 0-based index, -1 when ch does not occur.
RFind(s, ch) ==
    IF \E i \in 1..Len(s) : s[i] = ch
    THEN (CHOOSE i \in 1..Len(s) : s[i] = ch /\ \A j \in (i+1)..Len(s) : s[j] # ch) - 1
    ELSE -1

\* s[i:] for a 0-based i with 0 <= i <= len(s).
SliceFrom(s, i) == SubSeq(s, i + 1, Len(s))

RECURSIVE SplitOn(_, _)
\* s.split(ch): the pieces of s between occurrences of ch (always at least one piece).
SplitOn(s, ch) ==
    IF \E i \in 1..Len(s) : s[i] = ch
    THEN LET i == CHOOSE k \in 1..Len(s) : s[k] = ch /\ \A j \in 1..(k-1) : s[j] # ch
         IN  <<SubSeq(s, 1, i - 1)>> \o SplitOn(SubSeq(s, i + 1, Len(s)), ch)
    ELSE <<s>>

SelectSeqParts(parts) == SelectSeq(parts, LAMBDA p : p # <<>> /\ p # <<".">>)

\* pathlib: Path(p).name, the final component of p after dropping empty and "." components.
PathName(p) ==
    LET parts == SelectSeqParts(SplitOn(p, "/"))
    IN  IF Len(parts) = 0 THEN <<>> ELSE parts[Len(parts)]

-----------------------------------------------------------------------------
(* src/neocitizen/utils.py and the allow-list of src/neocitizen/api.py.    *)

\* A variant of get_extension that cuts the name at its first "." (every suffix).
get_extension_from_first_dot(path) ==
    LET name == PathName(path)
        dots == {k \in 1..Len(name) : name[k] = "."}
        i == IF dots = {} THEN -1 ELSE (CHOOSE k \in dots : \A j \in dots : k <= j) - 1
    IN  IF 0 <= i /\ i < Len(name) - 1 THEN SliceFrom(name, i) ELSE <<>>

\* get_extension(path): from the last "." of the name to its end, unless that
\* "." is absent or is the name's final character.
get_extension(path) ==
    LET name == PathName(path)
        i == RFind(name, ".")
    IN  IF 0 <= i /\ i < Len(name) - 1 THEN SliceFrom(name, i) ELSE <<>>

VALID_EXTENSIONS ==
    { <<".", "h", "t", "m", "l">>,
      <<".", "h", "t", "m">>,
      <<".", "t", "x", "t">>,
      <<".", "t", "e", "x", "t">>,
      <<".", "c", "s", "s">>,
      <<".", "j", "s">>,
      <<".", "j", "p", "g">>,
      <<".", "j", "p", "e", "g">>,
      <<".", "p", "n", "g">>,
      <<".", "g", "i", "f">>,
      <<".", "s", "v", "g">>,
      <<".", "m", "d">>,
      <<".", "m", "a", "r", "k", "d", "o", "w", "n">>,
      <<".", "e", "o", "t">>,
      <<".", "t", "t", "f">>,
      <<".", "w", "o", "f", "f">>,
      <<".", "w", "o", "f", "f", "2">>,
      <<".", "j", "s", "o", "n">>,
      <<".", "g", "e", "o", "j", "s", "o", "n">>,
      <<".", "c", "s", "v">>,
      <<".", "t", "s", "v">>,
      <<".", "m", "f">>,
      <<".", "i", "c", "o">>,
      <<".", "p", "d", "f">>,
      <<".", "a", "s", "c">>,
      <<".", "k", "e", "y">>,
      <<".", "p", "g", "p">>,
      <<".", "x", "m", "l">>,
      <<".", "m", "i", "d">>,
      <<".", "m", "i", "d", "i">>,
      <<".", "m", "a", "n", "i", "f", "e", "s", "t">>,
      <<".", "o", "t", "f">>,
      <<".", "w", "e", "b", "a", "p", "p">>,
      <<".", "l", "e", "s", "s">>,
      <<".", "s", "a", "s", "s">>,
      <<".", "r", "s", "s">>,
      <<".", "k", "m", "l">>,
      <<".", "d", "a", "e">>,
      <<".", "o", "b", "j">>,
      <<".", "m", "t", "l">>,
      <<".", "s", "c", "s", "s">>,
      <<".", "w", "e", "b", "p">>,
      <<".", "x", "c", "f">>,
      <<".", "e", "p", "u", "b">>,
      <<".", "g", "l", "t", "f">>,
      <<".", "b", "i", "n">>,
      <<".", "w", "e", "b", "m", "a", "n", "i", "f", "e", "s", "t">>,
      <<".", "k", "n", "o", "w", "l">>,
      <<".", "a", "t", "o", "m">>,
      <<".", "o", "p", "m", "l">>,
      <<".", "r", "d", "f">> }

-----------------------------------------------------------------------------
(* NeocitiesApi.__init__: credentials.                                      *)

ArgNames == {"api_key", "username", "password"}

\* The environment variable that stands in for each constructor argument.
EnvName(a) ==
    CASE a = "api_key" -> "NEOCITIES_API_KEY"
      [] a = "username" -> "NEOCITIES_USERNAME"
      [] a = "password" -> "NEOCITIES_PASSWORD"

\* A variant of ResolveInput in which the environment value wins over the argument.
ResolveInputEnvironmentFirst(arg, envval) == PyOr(envval, arg)

\* One line of api.py 152-154: `x = x or os.getenv(NAME)`.
ResolveInput(arg, envval) == PyOr(arg, envval)

\* os.getenv(NAME) is evaluated only when the left operand of `or` is falsy.
GetenvCalls(a) == {EnvName(n) : n \in {m \in ArgNames : ~Truthy(a[m])}}

BearerHeaders(api_key) == [Authorization |-> <<"Bearer ", api_key>>]

HTTPBasicAuth(username, password) == [username |-> username, password |-> password]

\* A variant of SelectCredentials that accepts a username or a password alone.
SelectCredentialsUserOrPassword(api_key, username, password) ==
    IF Truthy(api_key)
    THEN [ok |-> TRUE, headers |-> BearerHeaders(api_key), auth |-> NoneObj]
    ELSE IF Truthy(username) \/ Truthy(password)
         THEN [ok |-> TRUE, headers |-> NoneObj, auth |-> HTTPBasicAuth(username, password)]
         ELSE [ok |-> FALSE, headers |-> NoneObj, auth |-> NoneObj]

\* api.py 157-167: the credentials chosen from the resolved inputs.
SelectCredentials(api_key, username, password) ==
    IF Truthy(api_key)
    THEN [ok |-> TRUE, headers |-> BearerHeaders(api_key), auth |-> NoneObj]
    ELSE IF Truthy(username) /\ Truthy(password)
         THEN [ok |-> TRUE, headers |-> NoneObj, auth |-> HTTPBasicAuth(username, password)]
         ELSE [ok |-> FALSE, headers |-> NoneObj, auth |-> NoneObj]

Return(v) == [kind |-> "return", exc |-> "", value |-> v]

Raise(e, v) == [kind |-> "raise", exc |-> e, value |-> v]

NoResult == [kind |-> "none", exc |-> "", value |-> NoneObj]

NoOp == [name |-> "none"]

\* A local file system holding nothing: its directories, and its files with their bytes.
EmptyDict == [d \in {} |-> NoneObj]

NoFiles == [dirs |-> {}, files |-> EmptyDict]

\* api.py 180: the value __init__ gives self.__success.
SUCCESS == [result |-> "success"]

\* NeocitiesApi(api_key, username, password)
Construct ==
    /\ pc = "new"
    /\ LET c == SelectCredentials(
                    ResolveInput(args.api_key, env.NEOCITIES_API_KEY),
                    ResolveInput(args.username, env.NEOCITIES_USERNAME),
                    ResolveInput(args.password, env.NEOCITIES_PASSWORD))
       IN  /\ headers' = c.headers
           /\ auth' = c.auth
           /\ pc' = IF c.ok THEN "idle" ELSE "failed"
           /\ result' = IF c.ok THEN NoResult ELSE Raise("CredentialsRequiredError", NoneObj)
           /\ success' = IF c.ok THEN SUCCESS ELSE success
    /\ getenv' = GetenvCalls(args)
    /\ UNCHANGED <<site, cli, args, env, op, frame, calls, local>>

\* The inputs of a construction: each argument absent, empty or given; each
\* environment variable unset, empty or set.
ArgValues(n) == {None, "", "arg_" \o n}

EnvValues(n) == {None, "", "env_" \o n}

AllArgs == [api_key : ArgValues("api_key"), username : ArgValues("username"), password : ArgValues("password")]

AllEnv == [NEOCITIES_API_KEY : EnvValues("api_key"), NEOCITIES_USERNAME : EnvValues("username"), NEOCITIES_PASSWORD : EnvValues("password")]

InitRest ==
    /\ pc = "new"
    /\ getenv = {}
    /\ headers = NoneObj
    /\ auth = NoneObj
    /\ op = NoOp
    /\ frame = NoneObj
    /\ calls = <<>>
    /\ result = NoResult
    /\ local = NoFiles
    /\ success = NoneObj
    /\ site = NoFiles
    /\ cli = NoneObj

InitCred == args \in AllArgs /\ env \in AllEnv /\ InitRest

NextCred == Construct

SpecCred == InitCred /\ [][NextCred]_vars

-----------------------------------------------------------------------------
(* get_extension called on its own, as test_get_extension calls it.        *)

S_file_txt == <<"f", "i", "l", "e", ".", "t", "x", "t">>
S_file == <<"f", "i", "l", "e">>
S_file_tar_gz == <<"f", "i", "l", "e", ".", "t", "a", "r", ".", "g", "z">>
S_dir_slash == <<"d", "i", "r", "/">>

\* The paths get_extension is called with: every string of at most MaxPath
\* characters over a letter, "." and "/", and the paths of its doctest.
ExtensionAlphabet == {"a", ".", "/"}

ExtensionPaths ==
    UNION {[1..k -> ExtensionAlphabet] : k \in 0..MaxPath}
        \cup {S_file_txt, S_file, <<".", "t", "x", "t">>, S_file_tar_gz, <<"x", ".">>, S_dir_slash}

InitExtension ==
    /\ pc = "call"
    /\ \E path \in ExtensionPaths : op = [name |-> "get_extension", path |-> path]
    /\ args = [api_key |-> None, username |-> None, password |-> None]
    /\ env = [NEOCITIES_API_KEY |-> None, NEOCITIES_USERNAME |-> None, NEOCITIES_PASSWORD |-> None]
    /\ getenv = {}
    /\ headers = NoneObj
    /\ auth = NoneObj
    /\ frame = NoneObj
    /\ calls = <<>>
    /\ result = NoResult
    /\ local = NoFiles
    /\ success = NoneObj
    /\ site = NoFiles
    /\ cli = NoneObj

\* get_extension(Path(path))
GetExtension ==
    /\ pc = "call"
    /\ op.name = "get_extension"
    /\ result' = Return(get_extension(op.path))
    /\ pc' = "done"
    /\ UNCHANGED <<success, site, cli, args, env, getenv, headers, auth, op, frame, calls, local>>

NextExtension == GetExtension

SpecExtension == InitExtension /\ [][NextExtension]_vars

-----------------------------------------------------------------------------
(* The HTTP transport and the server: every answer an API call can get.    *)

BASE_URL == "https://neocities.org/api"

HTTP_OK == 200

Statuses == {HTTP_OK, 404}

TransportErrors == {"ConnectionError", "Timeout"}

\* A response body: `parses` tells whether it is JSON, `json` is its parsed value.
JsonBody(v) == [parses |-> TRUE, json |-> v]

Malformed == [parses |-> FALSE, json |-> NoneObj]

ErrorJson == [result |-> "error", error_type |-> "not_found", message |-> "the requested api call does not exist"]

UploadJson == [result |-> "success", message |-> "your file(s) have been successfully uploaded"]

DeleteJson == [result |-> "success", message |-> "file(s) have been deleted"]

InfoJson(sitename) == [result |-> "success", info |-> [sitename |-> sitename]]

KeyJson == [result |-> "success", api_key |-> "key"]

ListJson(files) == [result |-> "success", files |-> files]

\* What one request can meet: a transport failure, or a response whose status
\* and body the server chooses (a success body of the endpoint, an error body,
\* or a body that is not JSON).
Outcomes(successJsons) ==
    {[kind |-> "transport", error |-> e, status |-> 0, body |-> Malformed] : e \in TransportErrors}
    \cup {[kind |-> "response", error |-> "", status |-> s, body |-> b] :
            s \in Statuses, b \in {JsonBody(j) : j \in successJsons \cup {ErrorJson}} \cup {Malformed}}

\* A variant of CallResult that also inspects the body's result field.
CallResultCheckingResultField(o) ==
    IF o.kind = "transport"
    THEN Raise(o.error, NoneObj)
    ELSE IF ~o.body.parses
         THEN Raise("JSONDecodeError", NoneObj)
         ELSE IF o.status = HTTP_OK /\ o.body.json.result = "success"
              THEN Return(o.body.json)
              ELSE Raise("ApiError", o.body.json)

\* A variant of CallResult whose ApiError does not carry the response body.
CallResultApiErrorWithoutBody(o) ==
    IF o.kind = "transport"
    THEN Raise(o.error, NoneObj)
    ELSE IF ~o.body.parses
         THEN Raise("JSONDecodeError", NoneObj)
         ELSE IF o.status = HTTP_OK
              THEN Return(o.body.json)
              ELSE Raise("ApiError", NoneObj)

\* A variant of CallResult that wraps every failure in ApiError.
CallResultWrappingFailures(o) ==
    IF o.kind = "transport"
    THEN Raise("ApiError", NoneObj)
    ELSE IF ~o.body.parses
         THEN Raise("ApiError", NoneObj)
         ELSE IF o.status = HTTP_OK
              THEN Return(o.body.json)
              ELSE Raise("ApiError", o.body.json)

\* api.py 224-232: what _call_api does with the outcome of session.send.
CallResult(o) ==
    IF o.kind = "transport"
    THEN Raise(o.error, NoneObj)
    ELSE IF ~o.body.parses
         THEN Raise("JSONDecodeError", NoneObj)
         ELSE IF o.status = HTTP_OK
              THEN Return(o.body.json)
              ELSE Raise("ApiError", o.body.json)

\* A variant of Request that attaches no credentials.
RequestWithoutCredentials(method, path, kwargs) ==
    [api |-> TRUE, method |-> method, url |-> <<BASE_URL, path>>, headers |-> NoneObj, auth |-> NoneObj, kwargs |-> kwargs]

\* api.py 213-219: the request _call_api prepares.
Request(method, path, kwargs) ==
    [api |-> TRUE, method |-> method, url |-> <<BASE_URL, path>>, headers |-> headers, auth |-> auth, kwargs |-> kwargs]

\* NeocitiesApi._call_api(method, path, **kwargs) meeting outcome o.
CallApi(method, path, kwargs, o) ==
    [req |-> Request(method, path, kwargs), out |-> o, res |-> CallResult(o)]

-----------------------------------------------------------------------------
(* The local file system and the site, as far as the operations read them. *)

S_index_html == <<"i", "n", "d", "e", "x", ".", "h", "t", "m", "l">>
S_a_txt == <<"a", ".", "t", "x", "t">>
S_dir == <<"d", "i", "r">>
S_dir_index_html == <<"d", "i", "r", "/", "i", "n", "d", "e", "x", ".", "h", "t", "m", "l">>
S_a_html == <<"a", ".", "h", "t", "m", "l">>
S_b_HTML == <<"b", ".", "H", "T", "M", "L">>
S_c_tar_gz == <<"c", ".", "t", "a", "r", ".", "g", "z">>
S_README == <<"R", "E", "A", "D", "M", "E">>
S_dot_txt == <<".", "t", "x", "t">>
S_x_dot == <<"x", ".">>
S_docs_d_css == <<"d", "o", "c", "s", "/", "d", ".", "c", "s", "s">>
S_data == <<"d", "a", "t", "a">>
S_sub == <<"s", "u", "b">>
S_sub_b_css == <<"s", "u", "b", "/", "b", ".", "c", "s", "s">>
S_c_exe == <<"c", ".", "e", "x", "e">>
S_a == <<"a">>
S_a_slash == <<"a", "/">>
S_foo == <<"f", "o", "o">>
S_youpi == <<"y", "o", "u", "p", "i">>
S_local == <<"l", "o", "c", "a", "l">>
S_out == <<"o", "u", "t">>

\* Path(__file__).with_name("index.html"): the template shipped with the package.
INDEX_TEMPLATE == <<"n", "e", "o", "c", "i", "t", "i", "z", "e", "n", "/", "i", "n", "d", "e", "x", ".", "h", "t", "m", "l">>

\* The sequences over S of length at most n without a repeated element.
DistinctSeqs(S, n) ==
    UNION {{s \in [1..k -> S] : \A i, j \in 1..k : i # j => s[i] # s[j]} : k \in 0..n}

Range(s) == {s[i] : i \in DOMAIN s}

\* The bytes open(local_path, "rb").read() returns, named by the file read.
FileBytes(local_path) == [bytes_of |-> local_path]

\* Readable local files a caller may name in a file_map.
LocalFiles == {S_a_html, S_b_HTML, S_c_tar_gz, S_README, S_dot_txt, S_x_dot, S_docs_d_css}

Destinations == {S_index_html, S_data}

\* A file_map: a dict, so its keys are distinct; the sequence is its iteration order.
FileMaps ==
    {m \in UNION {[1..k -> LocalFiles \X Destinations] : k \in 0..MaxFileMap} :
        \A i, j \in DOMAIN m : i # j => m[i][1] # m[j][1]}

\* What dir.glob("**/*") can yield under the local directory: paths relative to
\* it, regular files and directories.
TreeEntries ==
    { [path |-> S_a_html, is_file |-> TRUE],
      [path |-> S_c_exe, is_file |-> TRUE],
      [path |-> S_sub, is_file |-> FALSE],
      [path |-> S_sub_b_css, is_file |-> TRUE] }

Trees ==
    {t \in DistinctSeqs(TreeEntries, MaxTree) :
        (\E i \in DOMAIN t : t[i].path = S_sub_b_css) => (\E i \in DOMAIN t : t[i].path = S_sub)}

DirOnServerValues == {NoneStr, <<>>, S_a, S_a_slash}

\* Paths of a /list response that do not name a place under the site's root:
\* download_all takes file["path"] as the server sends it (api.py 430).
S_abs_e_txt == <<"/", "e", ".", "t", "x", "t">>
S_up_e_txt == <<".", ".", "/", "e", ".", "t", "x", "t">>

\* Entries a /list response can hold.
ListEntries ==
    { [path |-> S_index_html, is_directory |-> FALSE],
      [path |-> S_a_txt, is_directory |-> FALSE],
      [path |-> S_dir, is_directory |-> TRUE],
      [path |-> S_dir_index_html, is_directory |-> FALSE],
      [path |-> S_abs_e_txt, is_directory |-> FALSE],
      [path |-> S_up_e_txt, is_directory |-> FALSE] }

Listings == DistinctSeqs(ListEntries, MaxListing)

FilenameLists == UNION {[1..k -> {S_index_html, S_a_txt, S_dir}] : k \in 0..MaxFilenames}

WaitingSeconds == {-1, 0, 10}

\* What save_to can name when download_all is called: an empty directory, a
\* directory that already holds a file, a directory holding a regular file and
\* a directory whose names clash with the site's, a regular file, or nothing.
SaveToKinds == {"empty_dir", "dir_with_file", "dir_with_clash", "file", "missing"}

\* The bytes of a local file that existed before the operation.
OldBytes == [bytes_of |-> <<"o", "l", "d">>]

\* The local file system around save_to when download_all starts.
InitialLocal(save_to, kind) ==
    CASE kind = "empty_dir" -> [dirs |-> {save_to}, files |-> EmptyDict]
      [] kind = "dir_with_file" ->
            [dirs |-> {save_to}, files |-> [p \in {save_to \o <<"/">> \o S_a_txt} |-> OldBytes]]
      [] kind = "dir_with_clash" ->
            [dirs |-> {save_to, save_to \o <<"/">> \o S_a_txt},
             files |-> [p \in {save_to \o <<"/">> \o S_dir} |-> OldBytes]]
      [] kind = "file" -> [dirs |-> {}, files |-> [p \in {save_to} |-> OldBytes]]
      [] kind = "missing" -> NoFiles

\* What the GET of a public URL can meet: a transport failure, or a response
\* of some status whose content is the file's bytes or an error page.
SiteOutcomes(url) ==
    {[kind |-> "transport", error |-> e, status |-> 0, body |-> OldBytes] : e \in TransportErrors}
    \cup {[kind |-> "response", error |-> "", status |-> HTTP_OK, body |-> [bytes_of |-> url[2]]],
          [kind |-> "response", error |-> "", status |-> 404, body |-> [bytes_of |-> <<"4", "0", "4">>]]}

-----------------------------------------------------------------------------
(* NeocitiesApi: the operations.                                            *)

\* files[key] = value
DictSet(files, key, value) ==
    [d \in DOMAIN files \cup {key} |-> IF d = key THEN value ELSE files[d]]

RECURSIVE ReadFilesCheckingDestination(_, _, _)
\* A variant of ReadFiles that checks the extension of the destination.
ReadFilesCheckingDestination(file_map, i, files) ==
    IF i > Len(file_map)
    THEN files
    ELSE LET local_path == file_map[i][1]
             path_on_server == file_map[i][2]
         IN  IF get_extension(path_on_server) \notin VALID_EXTENSIONS
             THEN ReadFilesCheckingDestination(file_map, i + 1, files)
             ELSE ReadFilesCheckingDestination(file_map, i + 1, DictSet(files, path_on_server, FileBytes(local_path)))

RECURSIVE ReadFiles(_, _, _)
\* api.py 263-279: the loop of upload_files from entry i on.
ReadFiles(file_map, i, files) ==
    IF i > Len(file_map)
    THEN files
    ELSE LET local_path == file_map[i][1]
             path_on_server == file_map[i][2]
         IN  IF get_extension(local_path) \notin VALID_EXTENSIONS
             THEN ReadFiles(file_map, i + 1, files)
             ELSE ReadFiles(file_map, i + 1, DictSet(files, path_on_server, FileBytes(local_path)))

\* upload_files(file_map) meeting outcome o: the single call it makes.
UploadFilesCall(file_map, o) ==
    CallApi("POST", "/upload", [files |-> ReadFiles(file_map, 1, EmptyDict)], o)

\* api.py 306-309
NormalizeDirOnServer(dir_on_server) ==
    IF dir_on_server = NoneStr
    THEN <<>>
    ELSE IF ~EndsWith(dir_on_server, <<"/">>)
         THEN dir_on_server \o <<"/">>
         ELSE dir_on_server

JoinPath(dir, rel) == dir \o <<"/">> \o rel

RECURSIVE DirFileMap(_, _, _, _)
\* api.py 315-318: the file_map upload_dir builds from the glob, from entry i on.
DirFileMap(dir, tree, prefix, i) ==
    IF i > Len(tree)
    THEN <<>>
    ELSE IF tree[i].is_file
         THEN <<<<JoinPath(dir, tree[i].path), prefix \o tree[i].path>>>> \o DirFileMap(dir, tree, prefix, i + 1)
         ELSE DirFileMap(dir, tree, prefix, i + 1)

\* A variant of DeleteAllFilenames that keeps index.html in the list.
DeleteAllFilenamesKeepingIndex(files) == [i \in 1..Len(files) |-> files[i].path]

\* api.py 389-393
DeleteAllFilenames(files) ==
    LET kept == SelectSeq(files, LAMBDA file : file.path # S_index_html)
    IN  [i \in 1..Len(kept) |-> kept[i].path]

\* upload_files(file_map)
UploadFiles ==
    /\ pc = "idle"
    /\ \E file_map \in FileMaps, o \in Outcomes({UploadJson}) :
        LET c == UploadFilesCall(file_map, o)
        IN  /\ op' = [name |-> "upload_files", file_map |-> file_map]
            /\ calls' = <<c>>
            /\ result' = c.res
    /\ frame' = NoneObj
    /\ pc' = "done"
    /\ UNCHANGED <<success, site, cli, args, env, getenv, headers, auth, local>>

\* upload_dir(dir, dir_on_server)
UploadDir ==
    /\ pc = "idle"
    /\ \E tree \in Trees, dir_on_server \in DirOnServerValues, o \in Outcomes({UploadJson}) :
        LET file_map == DirFileMap(S_local, tree, NormalizeDirOnServer(dir_on_server), 1)
            c == UploadFilesCall(file_map, o)
        IN  /\ op' = [name |-> "upload_dir", dir |-> S_local, tree |-> tree, dir_on_server |-> dir_on_server]
            /\ frame' = [file_map |-> file_map]
            /\ calls' = <<c>>
            /\ result' = c.res
    /\ pc' = "done"
    /\ UNCHANGED <<success, site, cli, args, env, getenv, headers, auth, local>>

\* A variant of DeleteFilesRun without the shortcut for an empty list.
DeleteFilesRunAlwaysCalling(filenames, o) ==
    LET c == CallApi("POST", "/delete", [data |-> [filenames |-> filenames]], o)
    IN  [calls |-> <<c>>, result |-> c.res]

\* api.py 349-358: delete_files(filenames) meeting outcome o (met only when a
\* call is made): the calls it makes and how it ends.
DeleteFilesRun(filenames, o) ==
    IF Len(filenames) = 0
    THEN [calls |-> <<>>, result |-> Return(success)]
    ELSE LET c == CallApi("POST", "/delete", [data |-> [filenames |-> filenames]], o)
         IN  [calls |-> <<c>>, result |-> c.res]

\* delete_files(filenames)
DeleteFiles ==
    /\ pc = "idle"
    /\ \E filenames \in FilenameLists, o \in Outcomes({DeleteJson}) :
        LET r == DeleteFilesRun(filenames, o)
        IN  /\ op' = [name |-> "delete_files", filenames |-> filenames]
            /\ calls' = r.calls
            /\ result' = r.result
    /\ frame' = NoneObj
    /\ pc' = "done"
    /\ UNCHANGED <<success, site, cli, args, env, getenv, headers, auth, local>>

\* The caller interrupts the process (KeyboardInterrupt) while a request is
\* under way: `except Exception` of _call_api does not catch it, it propagates.
Interrupted == [kind |-> "transport", error |-> "KeyboardInterrupt", status |-> 0, body |-> Malformed]

\* delete_all(waiting_seconds), api.py 388-393: fetch the listing, keep the names to delete.
DeleteAllList ==
    /\ pc = "idle"
    /\ \E waiting_seconds \in WaitingSeconds, o \in Outcomes({ListJson(l) : l \in Listings}) \cup {Interrupted} :
        LET c == CallApi("GET", "/list", [params |-> NoneObj], o)
        IN  /\ op' = [name |-> "delete_all", waiting_seconds |-> waiting_seconds]
            /\ calls' = <<c>>
            /\ IF c.res.kind = "raise"
               THEN /\ result' = c.res
                    /\ frame' = NoneObj
                    /\ pc' = "done"
               ELSE IF "files" \notin DOMAIN c.res.value
                    THEN /\ result' = Raise("KeyError", NoneObj)
                         /\ frame' = NoneObj
                         /\ pc' = "done"
                    ELSE /\ result' = NoResult
                         /\ frame' = [filenames |-> DeleteAllFilenames(c.res.value.files)]
                         /\ pc' = "delete_all_sleep"
    /\ UNCHANGED <<success, site, cli, args, env, getenv, headers, auth, local>>

\* delete_all, api.py 396: sleep(waiting_seconds)
DeleteAllSleep ==
    /\ pc = "delete_all_sleep"
    /\ IF op.waiting_seconds < 0
       THEN /\ result' = Raise("ValueError", NoneObj)
            /\ frame' = NoneObj
            /\ pc' = "done"
       ELSE /\ pc' = "delete_all_delete"
            /\ UNCHANGED <<result, frame>>
    /\ UNCHANGED <<success, site, cli, args, env, getenv, headers, auth, op, calls, local>>

\* delete_all, api.py 396: the caller interrupts the process during
\* sleep(waiting_seconds), or once it is over and before delete_files is
\* called; KeyboardInterrupt ends the operation there.
DeleteAllInterrupt ==
    /\ pc \in {"delete_all_sleep", "delete_all_delete"}
    /\ result' = Raise("KeyboardInterrupt", NoneObj)
    /\ frame' = NoneObj
    /\ pc' = "done"
    /\ UNCHANGED <<success, site, cli, args, env, getenv, headers, auth, op, calls, local>>

\* A variant of DeleteAllDelete that goes on to the upload when the deletion failed.
DeleteAllDeleteSwallowingFailure ==
    /\ pc = "delete_all_delete"
    /\ \E o \in Outcomes({DeleteJson}) :
        LET r == DeleteFilesRun(frame.filenames, o)
        IN  calls' = calls \o r.calls
    /\ pc' = "delete_all_initialize"
    /\ UNCHANGED <<result, frame>>
    /\ UNCHANGED <<success, site, cli, args, env, getenv, headers, auth, op, local>>

\* delete_all, api.py 398: self.delete_files(filenames)
DeleteAllDelete ==
    /\ pc = "delete_all_delete"
    /\ \E o \in Outcomes({DeleteJson}) :
        LET r == DeleteFilesRun(frame.filenames, o)
        IN  /\ calls' = calls \o r.calls
            /\ IF r.result.kind = "raise"
               THEN /\ result' = r.result
                    /\ frame' = NoneObj
                    /\ pc' = "done"
               ELSE /\ pc' = "delete_all_initialize"
                    /\ UNCHANGED <<result, frame>>
    /\ UNCHANGED <<success, site, cli, args, env, getenv, headers, auth, op, local>>

\* delete_all, api.py 399 and 322-325: return self._initialize_index_html()
DeleteAllInitialize ==
    /\ pc = "delete_all_initialize"
    /\ \E o \in Outcomes({UploadJson}) :
        LET c == UploadFilesCall(<<<<INDEX_TEMPLATE, S_index_html>>>>, o)
        IN  /\ calls' = Append(calls, c)
            /\ result' = c.res
    /\ frame' = NoneObj
    /\ pc' = "done"
    /\ UNCHANGED <<success, site, cli, args, env, getenv, headers, auth, op, local>>

\* fetch_file_list(path_on_server)
FetchFileList ==
    /\ pc = "idle"
    /\ \E path_on_server \in {NoneStr, S_foo}, o \in Outcomes({ListJson(l) : l \in Listings}) :
        LET params == IF path_on_server = NoneStr THEN NoneObj ELSE [path |-> path_on_server]
            c == CallApi("GET", "/list", [params |-> params], o)
        IN  /\ op' = [name |-> "fetch_file_list", path_on_server |-> path_on_server]
            /\ calls' = <<c>>
            /\ result' = c.res
    /\ frame' = NoneObj
    /\ pc' = "done"
    /\ UNCHANGED <<success, site, cli, args, env, getenv, headers, auth, local>>

\* fetch_info(sitename)
FetchInfo ==
    /\ pc = "idle"
    /\ \E sitename \in {NoneStr, S_youpi}, o \in Outcomes({InfoJson(S_youpi)}) :
        LET params == IF sitename = NoneStr THEN NoneObj ELSE [sitename |-> sitename]
            c == CallApi("GET", "/info", [params |-> params], o)
        IN  /\ op' = [name |-> "fetch_info", sitename |-> sitename]
            /\ calls' = <<c>>
            /\ result' = c.res
    /\ frame' = NoneObj
    /\ pc' = "done"
    /\ UNCHANGED <<success, site, cli, args, env, getenv, headers, auth, local>>

\* fetch_api_key()
FetchApiKey ==
    /\ pc = "idle"
    /\ \E o \in Outcomes({KeyJson}) :
        LET c == CallApi("GET", "/key", NoneObj, o)
        IN  /\ op' = [name |-> "fetch_api_key"]
            /\ calls' = <<c>>
            /\ result' = c.res
    /\ frame' = NoneObj
    /\ pc' = "done"
    /\ UNCHANGED <<success, site, cli, args, env, getenv, headers, auth, local>>

\* pathlib: parent / filename (an absolute filename replaces parent).
PathJoin(parent, filename) ==
    IF filename = <<>>
    THEN parent
    ELSE IF filename[1] = "/"
         THEN filename
         ELSE parent \o <<"/">> \o filename

\* os.path.dirname(p)
Dirname(p) ==
    LET i == RFind(p, "/")
    IN  IF i < 0 THEN <<>> ELSE IF i = 0 THEN <<"/">> ELSE SubSeq(p, 1, i)

\* d and the directories above it.
Ancestors(d) == {d} \cup {SubSeq(d, 1, i - 1) : i \in {k \in 2..Len(d) : d[k] = "/"}}

\* A variant of DownloadList that walks the listing from its last entry to its first.
DownloadListReversed(sitename, parent, files) ==
    [i \in 1..Len(files) |->
        [url |-> <<<<"https://">> \o sitename \o <<".neocities.org/">>, files[Len(files) + 1 - i].path>>,
         local_path |-> PathJoin(parent, files[Len(files) + 1 - i].path),
         is_directory |-> files[Len(files) + 1 - i].is_directory]]

\* api.py 428-437: the work list download_all builds from the listing.
DownloadList(sitename, parent, files) ==
    [i \in 1..Len(files) |->
        [url |-> <<<<"https://">> \o sitename \o <<".neocities.org/">>, files[i].path>>,
         local_path |-> PathJoin(parent, files[i].path),
         is_directory |-> files[i].is_directory]]

\* api.py 453: requests.get(url), outside _call_api: no credentials, no status check.
SiteGet(url, o) ==
    [req |-> [api |-> FALSE, method |-> "GET", site_url |-> url, headers |-> NoneObj, auth |-> NoneObj, kwargs |-> NoneObj],
     out |-> o,
     res |-> IF o.kind = "transport"
             THEN Raise(o.error, NoneObj)
             ELSE Return([status_code |-> o.status, content |-> o.body])]

\* A variant of is_dir that is satisfied by any existing path.
is_dir_or_file(fs, path) == path \in fs.dirs \/ path \in DOMAIN fs.files

\* pathlib: Path(path).is_dir() on the file system fs.
is_dir(fs, path) == path \in fs.dirs

\* download_all(save_to), api.py 415-423: the check of save_to, then fetch_info.
DownloadAllInfo ==
    /\ pc = "idle"
    /\ \E kind \in SaveToKinds, o \in Outcomes({InfoJson(S_youpi)}) :
        LET fs == InitialLocal(S_out, kind)
            c == CallApi("GET", "/info", [params |-> NoneObj], o)
        IN  /\ op' = [name |-> "download_all", save_to |-> S_out, save_to_kind |-> kind]
            /\ local' = fs
            /\ IF ~is_dir(fs, S_out)
               THEN /\ calls' = <<>>
                    /\ result' = Raise("ArgumentError", NoneObj)
                    /\ frame' = NoneObj
                    /\ pc' = "done"
               ELSE /\ calls' = <<c>>
                    /\ IF c.res.kind = "raise"
                       THEN /\ result' = c.res
                            /\ frame' = NoneObj
                            /\ pc' = "done"
                       ELSE IF "info" \notin DOMAIN c.res.value
                            THEN /\ result' = Raise("KeyError", NoneObj)
                                 /\ frame' = NoneObj
                                 /\ pc' = "done"
                            ELSE /\ result' = NoResult
                                 /\ frame' = [sitename |-> c.res.value.info.sitename]
                                 /\ pc' = "download_all_list"
    /\ UNCHANGED <<success, site, cli, args, env, getenv, headers, auth>>

\* download_all, api.py 426-437: fetch_file_list and the work list.
DownloadAllList ==
    /\ pc = "download_all_list"
    /\ \E o \in Outcomes({ListJson(l) : l \in Listings}) :
        LET c == CallApi("GET", "/list", [params |-> NoneObj], o)
        IN  /\ calls' = Append(calls, c)
            /\ IF c.res.kind = "raise"
               THEN /\ result' = c.res
                    /\ frame' = NoneObj
                    /\ pc' = "done"
               ELSE IF "files" \notin DOMAIN c.res.value
                    THEN /\ result' = Raise("KeyError", NoneObj)
                         /\ frame' = NoneObj
                         /\ pc' = "done"
                    ELSE IF c.res.value.files = <<>>
                         THEN /\ result' = Return(NoneObj)
                              /\ frame' = NoneObj
                              /\ pc' = "done"
                         ELSE /\ result' = NoResult
                              /\ frame' = [sitename |-> frame.sitename,
                                           files |-> DownloadList(frame.sitename, op.save_to, c.res.value.files),
                                           i |-> 1]
                              /\ pc' = "download_all_save"
    /\ UNCHANGED <<success, site, cli, args, env, getenv, headers, auth, op, local>>

\* download_all, api.py 444-455: one turn of the loop over the work list.
DownloadAllSave ==
    /\ pc = "download_all_save"
    /\ LET file == frame.files[frame.i]
           made == Ancestors(Dirname(file.local_path))
           last == frame.i = Len(frame.files)
           fs == [local EXCEPT !.dirs = @ \cup made]
       IN  IF \E a \in made : a \in DOMAIN local.files
           THEN \* os.makedirs meets a regular file
                /\ result' = Raise("FileExistsError", NoneObj)
                /\ frame' = NoneObj
                /\ pc' = "done"
                /\ UNCHANGED <<calls, local>>
           ELSE IF file.is_directory
                THEN /\ local' = fs
                     /\ calls' = calls
                     /\ result' = IF last THEN Return(NoneObj) ELSE NoResult
                     /\ frame' = IF last THEN NoneObj ELSE [frame EXCEPT !.i = @ + 1]
                     /\ pc' = IF last THEN "done" ELSE "download_all_save"
                ELSE \E o \in SiteOutcomes(file.url) :
                        LET c == SiteGet(file.url, o)
                        IN  /\ calls' = Append(calls, c)
                            /\ IF c.res.kind = "raise"
                               THEN /\ local' = fs
                                    /\ result' = c.res
                                    /\ frame' = NoneObj
                                    /\ pc' = "done"
                               ELSE IF file.local_path \in fs.dirs
                                    THEN \* open(local_path, "wb") on a directory
                                         /\ local' = fs
                                         /\ result' = Raise("IsADirectoryError", NoneObj)
                                         /\ frame' = NoneObj
                                         /\ pc' = "done"
                                    ELSE /\ local' = [fs EXCEPT !.files = DictSet(@, file.local_path, c.res.value.content)]
                                         /\ result' = IF last THEN Return(NoneObj) ELSE NoResult
                                         /\ frame' = IF last THEN NoneObj ELSE [frame EXCEPT !.i = @ + 1]
                                         /\ pc' = IF last THEN "done" ELSE "download_all_save"
    /\ UNCHANGED <<success, site, cli, args, env, getenv, headers, auth, op>>

\* The caller has taken the operation's result and goes on to its next
\* operation on the same client; the record of the finished operation is dropped.
Resume ==
    /\ pc = "done"
    /\ pc' = "idle"
    /\ op' = NoOp
    /\ frame' = NoneObj
    /\ calls' = <<>>
    /\ result' = NoResult
    /\ local' = NoFiles
    /\ UNCHANGED <<success, site, cli, args, env, getenv, headers, auth>>

\* The constructions the operations are explored from: an explicit key, an
\* explicit user and password, a key from the environment, a key from the
\* environment beside an explicit user and password, and no credentials.
NoArgs == [api_key |-> None, username |-> None, password |-> None]

NoEnv == [NEOCITIES_API_KEY |-> None, NEOCITIES_USERNAME |-> None, NEOCITIES_PASSWORD |-> None]

ClientInputs ==
    { <<[NoArgs EXCEPT !.api_key = "arg_api_key"], NoEnv>>,
      <<[NoArgs EXCEPT !.username = "arg_username", !.password = "arg_password"], NoEnv>>,
      <<NoArgs, [NoEnv EXCEPT !.NEOCITIES_API_KEY = "env_api_key"]>>,
      <<[NoArgs EXCEPT !.username = "arg_username", !.password = "arg_password"],
        [NoEnv EXCEPT !.NEOCITIES_API_KEY = "env_api_key"]>>,
      <<NoArgs, NoEnv>> }

Init ==
    /\ \E ci \in ClientInputs : args = ci[1] /\ env = ci[2]
    /\ InitRest

Next ==
    \/ Construct
    \/ UploadFiles
    \/ UploadDir
    \/ DeleteFiles
    \/ DeleteAllList
    \/ DeleteAllSleep
    \/ DeleteAllInterrupt
    \/ DeleteAllDelete
    \/ DeleteAllInitialize
    \/ FetchFileList
    \/ FetchInfo
    \/ FetchApiKey
    \/ DownloadAllInfo
    \/ DownloadAllList
    \/ DownloadAllSave
    \/ Resume

Spec == Init /\ [][Next]_vars

-----------------------------------------------------------------------------
(* The caller keeps the responses it is handed and may change them.        *)

\* What a caller can do to a dict d it was handed: assign one of its keys,
\* or add a key.
Modifications(d) ==
    { [d EXCEPT !.result = "changed"],
      [k \in DOMAIN d \cup {"note"} |-> IF k = "note" THEN "added" ELSE d[k]] }

\* api.py 349-350: delete_files([]) returns self.__success itself, not a copy;
\* every other response is the value response.json() has just built.
ReturnedSuccessItself == op.name = "delete_files" /\ Len(op.filenames) = 0

\* The caller changes the dict the finished operation returned, then goes on
\* to its next operation on the same client. A change to the dict that is
\* self.__success is a change to what the client holds.
CallerModifies ==
    /\ pc = "done"
    /\ result.kind = "return"
    /\ "result" \in DOMAIN result.value
    /\ \E v \in Modifications(result.value) :
          success' = IF ReturnedSuccessItself THEN v ELSE success
    /\ pc' = "idle"
    /\ op' = NoOp
    /\ frame' = NoneObj
    /\ calls' = <<>>
    /\ result' = NoResult
    /\ local' = NoFiles
    /\ UNCHANGED <<site, cli, args, env, getenv, headers, auth>>

NextCaller ==
    \/ Next
    \/ CallerModifies

SpecCaller == Init /\ [][NextCaller]_vars

-----------------------------------------------------------------------------
(* The client against the mock server of the tests: conftest.py replaces   *)
(* NeocitiesApi._call_api by NeocitiesMockServer._call_api, which serves a  *)
(* local directory. One operation is run on a site of some prior content,   *)
(* and the files are listed afterwards, as the tests of test_api.py do.     *)

\* self.dir, the directory the server serves.
S_srv == <<"/", "s", "r", "v">>
S_da_txt == <<"d", "a", ".", "t", "x", "t">>
S_a_a_html == <<"a", "/", "a", ".", "h", "t", "m", "l">>

\* p lies under the directory d.
IsUnder(p, d) == Len(p) > Len(d) + 1 /\ SubSeq(p, 1, Len(d) + 1) = d \o <<"/">>

\* path.relative_to(self.dir)
RelativeTo(p, d) == SubSeq(p, Len(d) + 2, Len(p))

\* `n in name` for two strings: n occurs somewhere inside name.
Contains(name, n) == \E i \in 0..(Len(name) - Len(n)) : SubSeq(name, i + 1, i + Len(n)) = n

CannotDeleteIndexJson ==
    [result |-> "error", error_type |-> "cannot_delete_index",
     message |-> "you cannot delete your index.html file, canceled deleting"]

\* The message of the server names the missing file; the name is left out here.
MissingFilesJson ==
    [result |-> "error", error_type |-> "missing_files",
     message |-> "was not found on your site, canceled deleting"]

\* What a call of the server leaves: the directory it serves, and the value
\* it returned or the exception it raised.
Served(fs, res) == [site |-> fs, res |-> res]

RECURSIVE post_upload(_, _, _, _, _)
\* mock_server.py 27-35: _post_upload from the i-th name of kwargs["files"] on
\* (names is the dict's iteration order). A name that is an absolute path
\* leaves the served directory: `writable` tells whether the process may
\* write there.
post_upload(fs, names, i, files, writable) ==
    IF i > Len(names)
    THEN Served(fs, Return(UploadJson))
    ELSE LET path == PathJoin(S_srv, names[i])
             made == Ancestors(Dirname(path))
             fs1 == [fs EXCEPT !.dirs = @ \cup made]
         IN  IF ~IsUnder(path, S_srv) /\ ~writable
             THEN Served(fs, Raise("PermissionError", NoneObj))
             ELSE IF \E a \in made : a \in DOMAIN fs.files
                  THEN Served(fs, Raise("FileExistsError", NoneObj))
                  ELSE IF path \in fs1.dirs
                       THEN Served(fs1, Raise("IsADirectoryError", NoneObj))
                       ELSE post_upload([fs1 EXCEPT !.files = DictSet(@, path, files[names[i]])],
                                        names, i + 1, files, writable)

\* os.remove(path) or shutil.rmtree(path)
Removed(fs, path) ==
    [dirs |-> {d \in fs.dirs : d # path /\ ~IsUnder(d, path)},
     files |-> [f \in {g \in DOMAIN fs.files : g # path /\ ~IsUnder(g, path)} |-> fs.files[f]]]

RECURSIVE post_delete(_, _, _, _)
\* mock_server.py 55-70: _post_delete from the i-th name of
\* kwargs["data"]["filenames[]"] on.
post_delete(fs, filenames, i, deleted_names) ==
    IF i > Len(filenames)
    THEN Served(fs, Return(DeleteJson))
    ELSE LET name == filenames[i]
             path == PathJoin(S_srv, name)
         IN  IF name = S_index_html
             THEN Served(fs, Raise("ApiError", CannotDeleteIndexJson))
             ELSE IF \E k \in DOMAIN deleted_names : Contains(name, deleted_names[k])
                  THEN post_delete(fs, filenames, i + 1, deleted_names)
                  ELSE IF path \notin fs.dirs /\ path \notin DOMAIN fs.files
                       THEN Served(fs, Raise("ApiError", MissingFilesJson))
                       ELSE post_delete(Removed(fs, path), filenames, i + 1, Append(deleted_names, name))

\* A variant of SiteEntries that lists regular files only.
SiteEntriesWithoutDirectories(fs) ==
    {[path |-> RelativeTo(p, S_srv), is_directory |-> FALSE] :
        p \in {q \in DOMAIN fs.files : IsUnder(q, S_srv)}}

\* mock_server.py 72-86: the entries of _get_list, the files and the
\* directories under self.dir at any depth.
SiteEntries(fs) ==
    {[path |-> RelativeTo(p, S_srv), is_directory |-> p \in fs.dirs] :
        p \in {q \in fs.dirs \cup DOMAIN fs.files : IsUnder(q, S_srv)}}

RECURSIVE Orderings(_)
\* The sequences that hold every element of S once.
Orderings(S) ==
    IF S = {} THEN {<<>>} ELSE UNION {{<<x>> \o q : q \in Orderings(S \ {x})} : x \in S}

\* The orders self.dir.glob("**/*") can yield the entries in: a directory is
\* walked before the directories beneath it and its children come together,
\* in the order of the file system.
GlobOrder(l) ==
    /\ \A i, j \in DOMAIN l : i < j => ~IsUnder(l[i].path, l[j].path)
    /\ \A i, j, k \in DOMAIN l :
          (i < k /\ k < j /\ Dirname(l[i].path) = Dirname(l[j].path)) => Dirname(l[k].path) = Dirname(l[i].path)
    /\ \A i, j \in DOMAIN l : (i < j /\ Dirname(l[j].path) = <<>>) => Dirname(l[i].path) = <<>>

get_list(fs) == {l \in Orderings(SiteEntries(fs)) : GlobOrder(l)}

\* One call of the server's _call_api, as the client made it.
MockCalled(method, path, kwargs, res) == [method |-> method, path |-> path, kwargs |-> kwargs, res |-> res]

RECURSIVE DictKeys(_, _, _)
\* The iteration order of the dict upload_files builds (api.py 263-279): the
\* destinations in the order of their first insertion.
DictKeys(file_map, i, keys) ==
    IF i > Len(file_map)
    THEN keys
    ELSE IF get_extension(file_map[i][1]) \in VALID_EXTENSIONS /\ file_map[i][2] \notin Range(keys)
         THEN DictKeys(file_map, i + 1, Append(keys, file_map[i][2]))
         ELSE DictKeys(file_map, i + 1, keys)

\* upload_files(file_map) served by the mock: the call and what it leaves.
MockUpload(fs, file_map, writable) ==
    LET files == ReadFiles(file_map, 1, EmptyDict)
        served == post_upload(fs, DictKeys(file_map, 1, <<>>), 1, files, writable)
    IN  [call |-> MockCalled("POST", "/upload", [files |-> files], served.res), site |-> served.site]

\* The content of the site before the operation: files of the test data,
\* and directories.
SiteFiles == {S_index_html, S_a_txt, S_da_txt, S_dir_index_html, S_a_html, S_a_a_html}

MakeSite(names, empty_dirs) ==
    [dirs |-> {S_srv} \cup UNION {Ancestors(Dirname(PathJoin(S_srv, n))) : n \in names}
                      \cup {PathJoin(S_srv, d) : d \in empty_dirs},
     files |-> [p \in {PathJoin(S_srv, n) : n \in names} |-> OldBytes]]

InitialSites ==
    {MakeSite(names, empty_dirs) :
        names \in {n \in SUBSET SiteFiles : Cardinality(n) <= MaxSite},
        empty_dirs \in {{}, {S_dir}}}

MockLocalFiles == {S_a_html, S_c_tar_gz, S_dot_txt}

MockFileMaps == {m \in FileMaps : \A i \in DOMAIN m : m[i][1] \in MockLocalFiles}

\* setup_method of test_api.py: a client with an explicit api_key, and the
\* server's directory with its prior content.
InitMock ==
    /\ pc = "new"
    /\ args = [api_key |-> "arg_api_key", username |-> None, password |-> None]
    /\ env = [NEOCITIES_API_KEY |-> None, NEOCITIES_USERNAME |-> None, NEOCITIES_PASSWORD |-> None]
    /\ site \in InitialSites
    /\ getenv = {}
    /\ headers = NoneObj
    /\ auth = NoneObj
    /\ op = NoOp
    /\ frame = NoneObj
    /\ calls = <<>>
    /\ result = NoResult
    /\ local = NoFiles
    /\ success = NoneObj
    /\ cli = NoneObj

\* upload_files(file_map) on the mock server
MockUploadFiles ==
    /\ pc = "idle"
    /\ \E file_map \in MockFileMaps, writable \in BOOLEAN :
        LET u == MockUpload(site, file_map, writable)
        IN  /\ op' = [name |-> "upload_files", file_map |-> file_map, before |-> site]
            /\ calls' = <<u.call>>
            /\ result' = u.call.res
            /\ site' = u.site
    /\ frame' = NoneObj
    /\ pc' = "done"
    /\ UNCHANGED <<success, cli, args, env, getenv, headers, auth, local>>

\* upload_dir(dir, dir_on_server) on the mock server
MockUploadDir ==
    /\ pc = "idle"
    /\ \E tree \in Trees, dir_on_server \in DirOnServerValues, writable \in BOOLEAN :
        LET file_map == DirFileMap(S_local, tree, NormalizeDirOnServer(dir_on_server), 1)
            u == MockUpload(site, file_map, writable)
        IN  /\ op' = [name |-> "upload_dir", dir |-> S_local, tree |-> tree, dir_on_server |-> dir_on_server,
                       file_map |-> file_map, before |-> site]
            /\ calls' = <<u.call>>
            /\ result' = u.call.res
            /\ site' = u.site
    /\ frame' = NoneObj
    /\ pc' = "done"
    /\ UNCHANGED <<success, cli, args, env, getenv, headers, auth, local>>

\* delete_files(filenames) served by the mock (api.py 349-358).
MockDelete(fs, filenames) ==
    IF Len(filenames) = 0
    THEN [calls |-> <<>>, result |-> Return(success), site |-> fs]
    ELSE LET served == post_delete(fs, filenames, 1, <<>>)
         IN  [calls |-> <<MockCalled("POST", "/delete", [data |-> [filenames |-> filenames]], served.res)>>,
              result |-> served.res, site |-> served.site]

\* delete_files(filenames) on the mock server
MockDeleteFiles ==
    /\ pc = "idle"
    /\ \E filenames \in FilenameLists :
        LET r == MockDelete(site, filenames)
        IN  /\ op' = [name |-> "delete_files", filenames |-> filenames, before |-> site]
            /\ calls' = r.calls
            /\ result' = r.result
            /\ site' = r.site
    /\ frame' = NoneObj
    /\ pc' = "done"
    /\ UNCHANGED <<success, cli, args, env, getenv, headers, auth, local>>

\* fetch_file_list() on the mock server
MockFetchFileList ==
    /\ pc = "idle"
    /\ \E l \in get_list(site) :
        LET res == Return(ListJson(l))
        IN  /\ calls' = <<MockCalled("GET", "/list", [params |-> NoneObj], res)>>
            /\ result' = res
    /\ op' = [name |-> "fetch_file_list", path_on_server |-> NoneStr, before |-> site]
    /\ frame' = NoneObj
    /\ pc' = "done"
    /\ UNCHANGED <<success, site, cli, args, env, getenv, headers, auth, local>>

\* A variant of MockDeleteAllList that sends the deletion along with the listing.
MockDeleteAllListDeletingAtOnce ==
    /\ pc = "idle"
    /\ \E waiting_seconds \in WaitingSeconds, l \in get_list(site) :
        LET r == MockDelete(site, DeleteAllFilenames(l))
        IN  /\ op' = [name |-> "delete_all", waiting_seconds |-> waiting_seconds, before |-> site]
            /\ calls' = <<MockCalled("GET", "/list", [params |-> NoneObj], Return(ListJson(l)))>> \o r.calls
            /\ site' = r.site
            /\ result' = NoResult
            /\ frame' = [filenames |-> DeleteAllFilenames(l)]
            /\ pc' = "delete_all_sleep"
    /\ UNCHANGED <<success, cli, args, env, getenv, headers, auth, local>>

\* delete_all(waiting_seconds) on the mock server, api.py 388-393: the listing
\* and the names to delete; the caller may interrupt the process meanwhile.
MockDeleteAllList ==
    /\ pc = "idle"
    /\ \E waiting_seconds \in WaitingSeconds :
        /\ op' = [name |-> "delete_all", waiting_seconds |-> waiting_seconds, before |-> site]
        /\ \/ \E l \in get_list(site) :
                 /\ calls' = <<MockCalled("GET", "/list", [params |-> NoneObj], Return(ListJson(l)))>>
                 /\ result' = NoResult
                 /\ frame' = [filenames |-> DeleteAllFilenames(l)]
                 /\ pc' = "delete_all_sleep"
           \/ /\ calls' = <<MockCalled("GET", "/list", [params |-> NoneObj], Raise("KeyboardInterrupt", NoneObj))>>
              /\ result' = Raise("KeyboardInterrupt", NoneObj)
              /\ frame' = NoneObj
              /\ pc' = "done"
    /\ UNCHANGED <<success, site, cli, args, env, getenv, headers, auth, local>>

\* delete_all on the mock server, api.py 398: self.delete_files(filenames)
MockDeleteAllDelete ==
    /\ pc = "delete_all_delete"
    /\ LET r == MockDelete(site, frame.filenames)
       IN  /\ calls' = calls \o r.calls
           /\ site' = r.site
           /\ IF r.result.kind = "raise"
              THEN /\ result' = r.result
                   /\ frame' = NoneObj
                   /\ pc' = "done"
              ELSE /\ pc' = "delete_all_initialize"
                   /\ UNCHANGED <<result, frame>>
    /\ UNCHANGED <<success, cli, args, env, getenv, headers, auth, op, local>>

\* delete_all on the mock server, api.py 399 and 322-325: _initialize_index_html()
MockDeleteAllInitialize ==
    /\ pc = "delete_all_initialize"
    /\ LET u == MockUpload(site, <<<<INDEX_TEMPLATE, S_index_html>>>>, TRUE)
       IN  /\ calls' = Append(calls, u.call)
           /\ result' = u.call.res
           /\ site' = u.site
    /\ frame' = NoneObj
    /\ pc' = "done"
    /\ UNCHANGED <<success, cli, args, env, getenv, headers, auth, op, local>>

\* The test lists the files once the operation is over: fetch_file_list().
MockListAfter ==
    /\ pc = "done"
    /\ op.name # "fetch_file_list"
    /\ \E l \in get_list(site) : frame' = [listed |-> l]
    /\ pc' = "listed"
    /\ UNCHANGED <<success, site, cli, args, env, getenv, headers, auth, op, calls, result, local>>

NextMock ==
    \/ Construct
    \/ MockUploadFiles
    \/ MockUploadDir
    \/ MockDeleteFiles
    \/ MockFetchFileList
    \/ MockDeleteAllList
    \/ DeleteAllSleep
    \/ DeleteAllInterrupt
    \/ MockDeleteAllDelete
    \/ MockDeleteAllInitialize
    \/ MockListAfter

SpecMock == InitMock /\ [][NextMock]_vars

-----------------------------------------------------------------------------
(* The command line, src/neocitizen/cli.py: one invocation naming a        *)
(* subcommand. The client's operations are taken by how they end.          *)

S_bar == <<"b", "a", "r">>
S_foo_txt == <<"f", "o", "o", ".", "t", "x", "t">>
S_pair == <<"a", ".", "t", "x", "t", ":", "d", "/", "a", ".", "t", "x", "t">>
S_triple == <<"a", ".", "t", "x", "t", ":", "b", ":", "c">>

\* How an operation of the client called by a command ends: it returns a
\* response whose result is "success", it returns the error body of a 200
\* response, or it raises.
Endings == {"success", "error_body", "raise"}

\* One call of a high-level operation of the client.
Called(name, kwargs, ended) == [name |-> name, kwargs |-> kwargs, ended |-> ended]

\* What a command leaves: whether it read the confirmation prompt, the
\* operations it called, in order, and the exit code of the process.
Left(prompted, operations, exit_code) ==
    [prompted |-> prompted, operations |-> operations, exit_code |-> exit_code]

\* The exit code after an operation that ended as `ended`, when nothing follows.
ExitAfter(ended) == IF ended = "raise" THEN 1 ELSE 0

RECURSIVE CliFileMap(_, _, _)
\* cli.py 57-65: the file_map built from the --file items, from item i on;
\* NoneObj when an item has more than two parts (raise BadParameter).
CliFileMap(file, i, file_map) ==
    IF i > Len(file)
    THEN file_map
    ELSE LET paths == SplitOn(file[i], ":")
         IN  IF Len(paths) = 1
             THEN CliFileMap(file, i + 1, DictSet(file_map, paths[1], paths[1]))
             ELSE IF Len(paths) = 2
                  THEN CliFileMap(file, i + 1, DictSet(file_map, paths[1], paths[2]))
                  ELSE NoneObj

\* A variant of CliUploadRun that is done once it has uploaded the directory.
CliUploadRunDirOnly(o, e1, e2) ==
    LET file_map == CliFileMap(o.file, 1, EmptyDict)
    IN  IF o.dir # NoneStr /\ o.dir # <<>>
        THEN Left(FALSE, <<Called("upload_dir", [dir |-> o.dir, dir_on_server |-> o.dir_on_server], e1)>>, ExitAfter(e1))
        ELSE IF Len(o.file) = 0
             THEN Left(FALSE, <<>>, 0)
             ELSE IF file_map = NoneObj
                  THEN Left(FALSE, <<>>, 1)
                  ELSE Left(FALSE, <<Called("upload_files", [file_map |-> file_map], e2)>>, ExitAfter(e2))

\* cli.py 52-66: upload(dir, dir_on_server, file), upload_dir ending as e1 and
\* upload_files as e2 when they are called.
CliUploadRun(o, e1, e2) ==
    LET first == IF o.dir # NoneStr /\ o.dir # <<>>
                 THEN <<Called("upload_dir", [dir |-> o.dir, dir_on_server |-> o.dir_on_server], e1)>>
                 ELSE <<>>
        file_map == CliFileMap(o.file, 1, EmptyDict)
    IN  IF first # <<>> /\ e1 = "raise"
        THEN Left(FALSE, first, 1)
        ELSE IF Len(o.file) = 0
             THEN Left(FALSE, first, 0)
             ELSE IF file_map = NoneObj
                  THEN Left(FALSE, first, 1)
                  ELSE Left(FALSE, Append(first, Called("upload_files", [file_map |-> file_map], e2)), ExitAfter(e2))

\* click.confirm(...) reading the answer: TRUE for yes, FALSE for no (or an
\* empty line, the default); the end of the input aborts the command.
Confirmed(answer) == answer = "y"

\* A variant of CliDeleteRun that asks nothing.
CliDeleteRunWithoutPrompt(o, answer, e) ==
    IF o.all
    THEN Left(FALSE, <<Called("delete_all", [waiting_seconds |-> 2], e)>>, ExitAfter(e))
    ELSE IF Len(o.file) > 0
         THEN Left(FALSE, <<Called("delete_files", [filenames |-> o.file], e)>>, ExitAfter(e))
         ELSE Left(FALSE, <<>>, 0)

\* cli.py 82-92: delete(all, file, yes), the prompt (when read) being given
\* `answer` and the operation (when called) ending as e.
CliDeleteRun(o, answer, e) ==
    IF o.all
    THEN IF ~o.yes /\ answer = "eof"
         THEN Left(TRUE, <<>>, 1)
         ELSE IF ~o.yes /\ ~Confirmed(answer)
              THEN Left(TRUE, <<>>, 0)
              ELSE Left(~o.yes, <<Called("delete_all", [waiting_seconds |-> 2], e)>>, ExitAfter(e))
    ELSE IF Len(o.file) > 0
         THEN IF ~o.yes /\ answer = "eof"
              THEN Left(TRUE, <<>>, 1)
              ELSE IF ~o.yes /\ ~Confirmed(answer)
                   THEN Left(TRUE, <<>>, 0)
                   ELSE Left(~o.yes, <<Called("delete_files", [filenames |-> o.file], e)>>, ExitAfter(e))
         ELSE Left(FALSE, <<>>, 0)

\* cli.py 95-98, 101-117, 120-139, 142-145: download, list, info and key call
\* one operation; list, info and key then read a key of the response, which
\* an error body does not hold.
CliOtherRun(o, e) ==
    CASE o.command = "download" ->
            Left(FALSE, <<Called("download_all", [save_to |-> o.dir], e)>>, ExitAfter(e))
      [] o.command = "list" ->
            Left(FALSE, <<Called("fetch_file_list", [path_on_server |-> o.path], e)>>, IF e = "success" THEN 0 ELSE 1)
      [] o.command = "info" ->
            Left(FALSE, <<Called("fetch_info", [sitename |-> o.sitename], e)>>, IF e = "success" THEN 0 ELSE 1)
      [] o.command = "key" ->
            Left(FALSE, <<Called("fetch_api_key", NoneObj, e)>>, IF e = "success" THEN 0 ELSE 1)

CliFileItems == {S_foo_txt, S_pair, S_triple}

CliFileTuples == UNION {[1..k -> CliFileItems] : k \in 0..MaxCliFiles}

CliDeleteTuples == UNION {[1..k -> {S_foo, S_bar}] : k \in 0..MaxCliFiles}

\* The command lines: a subcommand with its options as click hands them to
\* the command (an option that is not given is None, a flag FALSE, a
\* repeated option the tuple of its values).
CommandLines ==
    [command : {"upload"}, dir : {NoneStr, <<>>, S_foo}, dir_on_server : {NoneStr, S_bar}, file : CliFileTuples]
    \cup [command : {"delete"}, all : BOOLEAN, file : CliDeleteTuples, yes : BOOLEAN]
    \cup [command : {"download"}, dir : {S_out}]
    \cup [command : {"list"}, path : {NoneStr, S_foo}, format : {None, "json"}]
    \cup [command : {"info"}, sitename : {NoneStr, S_youpi}, format : {None, "json"}]
    \cup [command : {"key"}]

\* What the standard input holds for the confirmation prompt.
Answers == {"y", "N", "eof"}

InitCli ==
    /\ pc = "cli"
    /\ \E ci \in ClientInputs : args = ci[1] /\ env = ci[2]
    /\ \E argv \in CommandLines, answer \in Answers :
          cli = [argv |-> argv, answer |-> answer, clients |-> 0, ran |-> FALSE,
                 prompted |-> FALSE, operations |-> <<>>, exit_code |-> -1]
    /\ getenv = {}
    /\ headers = NoneObj
    /\ auth = NoneObj
    /\ op = NoOp
    /\ frame = NoneObj
    /\ calls = <<>>
    /\ result = NoResult
    /\ local = NoFiles
    /\ success = NoneObj
    /\ site = NoFiles

\* cli.py 27-31: the group's callback constructs the client from --key,
\* --username and --password before the subcommand runs.
CliGroup ==
    /\ pc = "cli"
    /\ LET c == SelectCredentials(
                    ResolveInput(args.api_key, env.NEOCITIES_API_KEY),
                    ResolveInput(args.username, env.NEOCITIES_USERNAME),
                    ResolveInput(args.password, env.NEOCITIES_PASSWORD))
       IN  /\ headers' = c.headers
           /\ auth' = c.auth
           /\ pc' = IF c.ok THEN "cli_command" ELSE "cli_exit"
           /\ result' = IF c.ok THEN NoResult ELSE Raise("CredentialsRequiredError", NoneObj)
           /\ cli' = [cli EXCEPT !.clients = @ + 1, !.exit_code = IF c.ok THEN @ ELSE 1]
           /\ success' = IF c.ok THEN SUCCESS ELSE success
    /\ getenv' = GetenvCalls(args)
    /\ UNCHANGED <<site, args, env, op, frame, calls, local>>

\* A command has run: the process exits with what it left.
CliExit(left) ==
    /\ cli' = [cli EXCEPT !.ran = TRUE, !.prompted = left.prompted,
                           !.operations = left.operations, !.exit_code = left.exit_code]
    /\ pc' = "cli_exit"
    /\ UNCHANGED <<success, site, args, env, getenv, headers, auth, op, frame, calls, result, local>>

\* neocitizen upload [--dir D] [--dir-on-server S] [--file F]...
CliUpload ==
    /\ pc = "cli_command"
    /\ cli.argv.command = "upload"
    /\ \E e1, e2 \in Endings : CliExit(CliUploadRun(cli.argv, e1, e2))

\* neocitizen delete [--all] [--file F]... [--yes]
CliDelete ==
    /\ pc = "cli_command"
    /\ cli.argv.command = "delete"
    /\ \E e \in Endings : CliExit(CliDeleteRun(cli.argv, cli.answer, e))

\* neocitizen download DIR, list, info, key
CliOther ==
    /\ pc = "cli_command"
    /\ cli.argv.command \in {"download", "list", "info", "key"}
    /\ \E e \in Endings : CliExit(CliOtherRun(cli.argv, e))

NextCli ==
    \/ CliGroup
    \/ CliUpload
    \/ CliDelete
    \/ CliOther

SpecCli == InitCli /\ [][NextCli]_vars

-----------------------------------------------------------------------------
(* Properties.                                                              *)

\* Some non-empty value exists for an input, given explicitly or by the environment.
HasInput(n) == Truthy(args[n]) \/ Truthy(env[EnvName(n)])

\* The first non-empty value of an input: the argument, else the environment's.
FirstNonEmpty(n) == IF Truthy(args[n]) THEN args[n] ELSE env[EnvName(n)]

BearerMode == pc = "idle" /\ headers # NoneObj /\ auth = NoneObj

BasicAuthMode == pc = "idle" /\ headers = NoneObj /\ auth # NoneObj

\* C1: constructing a client picks bearer-token mode when an api_key is given
\* (explicitly or by the environment) and non-empty; otherwise basic-auth mode
\* when a username and a password are both given and non-empty; otherwise the
\* construction fails with CredentialsRequiredError and no client exists.
C1_ResolutionOrder ==
    pc # "new" =>
        IF HasInput("api_key")
        THEN BearerMode
        ELSE IF HasInput("username") /\ HasInput("password")
             THEN BasicAuthMode
             ELSE /\ pc = "failed"
                  /\ result = Raise("CredentialsRequiredError", NoneObj)
                  /\ headers = NoneObj
                  /\ auth = NoneObj

\* A client in basic-auth mode whose username is explicit and whose password
\* comes from the environment, the api_key being empty on both sides.
C1_Witness ==
    /\ BasicAuthMode
    /\ args.api_key = "" /\ env.NEOCITIES_API_KEY = None
    /\ args.username = "arg_username" /\ args.password = None
    /\ env.NEOCITIES_PASSWORD = "env_password"

\* C2 as stated: an environment variable is consulted only when its argument
\* is absent, and whenever explicit credentials were supplied (an api_key, or a
\* username with a password) the client uses explicitly supplied credentials.
C2_ExplicitCredentialsAreUsed ==
    pc # "new" =>
        /\ \A n \in ArgNames : EnvName(n) \in getenv => ~Truthy(args[n])
        /\ Truthy(args.api_key) => BearerMode /\ headers = BearerHeaders(args.api_key)
        /\ (Truthy(args.username) /\ Truthy(args.password)) =>
              \/ BearerMode /\ headers = BearerHeaders(args.api_key)
              \/ BasicAuthMode /\ auth = HTTPBasicAuth(args.username, args.password)

\* C2, amended: for each input independently the environment variable is
\* consulted exactly when the argument is absent or empty, and the value used
\* for the input is the argument whenever the argument is non-empty; the mode
\* is then chosen from the values so resolved, so that an api_key from the
\* environment is used in place of an explicit username and password.
C2_ExplicitInputPrecedence ==
    pc # "new" =>
        /\ \A n \in ArgNames : EnvName(n) \in getenv <=> args[n] \in {None, ""}
        /\ headers # NoneObj => headers = BearerHeaders(FirstNonEmpty("api_key"))
        /\ auth # NoneObj => auth = HTTPBasicAuth(FirstNonEmpty("username"), FirstNonEmpty("password"))
        /\ Truthy(args.api_key) => BearerMode /\ headers = BearerHeaders(args.api_key)
        /\ (~Truthy(args.api_key) /\ Truthy(env.NEOCITIES_API_KEY)) =>
              BearerMode /\ headers = BearerHeaders(env.NEOCITIES_API_KEY)

\* An explicit username and password beside an api_key in the environment:
\* the client is in bearer mode with the environment's key.
C2_Witness ==
    /\ args.api_key = None /\ args.username = "arg_username" /\ args.password = "arg_password"
    /\ env.NEOCITIES_API_KEY = "env_api_key"
    /\ BearerMode
    /\ headers = BearerHeaders("env_api_key")

\* The credentials a client constructed from args and env holds.
ExpectedHeaders == IF HasInput("api_key") THEN BearerHeaders(FirstNonEmpty("api_key")) ELSE NoneObj

ExpectedAuth ==
    IF HasInput("api_key")
    THEN NoneObj
    ELSE HTTPBasicAuth(FirstNonEmpty("username"), FirstNonEmpty("password"))

\* C3: after any sequence of operations every API request carries exactly the
\* credentials resolved at construction, the bearer header or basic auth, never
\* both and never neither, and the client's credentials are never changed.
C3_RequestsCarryConstructionCredentials ==
    /\ pc \notin {"new", "failed"} => headers = ExpectedHeaders /\ auth = ExpectedAuth
    /\ \A i \in DOMAIN calls :
        calls[i].req.api =>
            /\ (calls[i].req.headers # NoneObj) # (calls[i].req.auth # NoneObj)
            /\ calls[i].req.headers = ExpectedHeaders
            /\ calls[i].req.auth = ExpectedAuth

\* A delete_all that made its three requests on a basic-auth client.
C3_Witness ==
    /\ pc = "done"
    /\ op.name = "delete_all"
    /\ Len(calls) = 3
    /\ calls[3].req.auth = HTTPBasicAuth("arg_username", "arg_password")

\* The calls made through _call_api (download_all also fetches public URLs).
ApiCalls == {i \in DOMAIN calls : calls[i].req.api}

\* C4 as stated: every call either returns a response whose result is
\* "success" or raises an error of the call, never both and never neither; no
\* call returns normally a response whose result is "error".
C4_SuccessOrError ==
    \A i \in ApiCalls :
        (calls[i].res.kind = "return" /\ calls[i].res.value.result = "success")
            # (calls[i].res.kind = "raise")

\* C4, amended: every call either returns the parsed body of a response with
\* status 200, whatever the body's result field, or raises, never both and
\* never neither; a response with status 200 whose result is "error" is
\* returned normally.
C4_ReturnsBodyOf200OrRaises ==
    \A i \in ApiCalls :
        LET o == calls[i].out
            r == calls[i].res
        IN  /\ (r.kind = "return") # (r.kind = "raise")
            /\ r.kind = "return" <=> (o.kind = "response" /\ o.status = 200 /\ o.body.parses)
            /\ r.kind = "return" => r.value = o.body.json

\* A call that returned normally a response whose result is "error".
C4_Witness ==
    \E i \in ApiCalls :
        /\ calls[i].out.status = 200
        /\ calls[i].res.kind = "return"
        /\ calls[i].res.value.result = "error"

HasAllowedSuffix(local_path) == \E e \in VALID_EXTENSIONS : EndsWith(local_path, e)

IsUploadRequest(c) == c.req.api /\ c.req.method = "POST" /\ c.req.url = <<BASE_URL, "/upload">>

IsDeleteRequest(c) == c.req.api /\ c.req.method = "POST" /\ c.req.url = <<BASE_URL, "/delete">>

IsListRequest(c) == c.req.api /\ c.req.method = "GET" /\ c.req.url = <<BASE_URL, "/list">>

\* C7: upload_files issues exactly one POST /upload, whose destinations are
\* exactly those of the entries whose local name carries an allowed extension
\* (case-sensitive, the destination's name playing no part); the other entries
\* are skipped without raising, also when all are skipped or the map is empty.
C7_UploadFilesFiltersByLocalExtension ==
    (pc = "done" /\ op.name = "upload_files") =>
        /\ Len(calls) = 1
        /\ IsUploadRequest(calls[1])
        /\ DOMAIN calls[1].req.kwargs.files =
              {op.file_map[i][2] : i \in {j \in DOMAIN op.file_map : HasAllowedSuffix(op.file_map[j][1])}}
        /\ result = calls[1].res

\* An upload_files of two entries, both skipped (an upper-case extension with
\* an allowed destination name, and an extension outside the list): one
\* request with no file, and a normal return.
C7_Witness ==
    /\ pc = "done"
    /\ op.name = "upload_files"
    /\ op.file_map = <<<<S_b_HTML, S_index_html>>, <<S_c_tar_gz, S_data>>>>
    /\ Len(calls) = 1
    /\ DOMAIN calls[1].req.kwargs.files = {}
    /\ result.kind = "return"

\* The prefix the specification gives for dir_on_server: empty when omitted, a
\* "/" appended exactly when it is non-empty and lacks one.
NormalizedPrefix(d) ==
    IF d = NoneStr
    THEN <<>>
    ELSE IF d # <<>> /\ d[Len(d)] # "/"
         THEN d \o <<"/">>
         ELSE d

\* C8: upload_dir maps every regular file under dir, and nothing else, to
\* normalize(dir_on_server) followed by its path relative to dir, and delegates
\* to upload_files once.
C8_UploadDirDestinations ==
    (pc = "done" /\ op.name = "upload_dir") =>
        /\ Range(frame.file_map) =
              {<<JoinPath(op.dir, e.path), NormalizedPrefix(op.dir_on_server) \o e.path>> :
                  e \in {x \in Range(op.tree) : x.is_file}}
        /\ Len(calls) = 1
        /\ IsUploadRequest(calls[1])
        /\ result = calls[1].res

\* C9: delete_files of an empty list returns a success response without any
\* network call; of a non-empty list it issues exactly one POST /delete whose
\* filenames[] is the whole list, and ends as that call ends.
C9_DeleteFilesCalls ==
    (pc = "done" /\ op.name = "delete_files") =>
        IF op.filenames = <<>>
        THEN calls = <<>> /\ result = Return([result |-> "success"])
        ELSE /\ Len(calls) = 1
             /\ IsDeleteRequest(calls[1])
             /\ calls[1].req.kwargs.data.filenames = op.filenames
             /\ result = calls[1].res

\* A delete_files of the empty list that returned success without a call.
C9_Witness ==
    /\ pc = "done"
    /\ op.name = "delete_files"
    /\ op.filenames = <<>>
    /\ calls = <<>>
    /\ result.kind = "return"
    /\ result.value.result = "success"

\* The listing a delete_all got from its first call.
Listed == calls[1].res.value.files

ListedExceptIndex == {Listed[i].path : i \in DOMAIN Listed} \ {S_index_html}

\* C10: delete_all makes one GET /list, waits, deletes every listed path but
\* the literal "index.html" (in one /delete request, none when nothing is left),
\* then uploads the template as "index.html"; nothing is deleted or uploaded
\* before the wait is over, "index.html" is never in a /delete request, and a
\* delete_all that returns has ended with exactly one POST /upload of
\* "index.html" alone, whose response it returns.
C10_DeleteAllSequence ==
    op.name = "delete_all" =>
        /\ Len(calls) >= 1 /\ IsListRequest(calls[1])
        /\ pc \in {"delete_all_sleep", "delete_all_delete"} => Len(calls) = 1
        /\ \A i \in DOMAIN calls :
              IsDeleteRequest(calls[i]) =>
                  /\ i = 2
                  /\ Range(calls[i].req.kwargs.data.filenames) = ListedExceptIndex
                  /\ Len(calls[i].req.kwargs.data.filenames) = Cardinality(ListedExceptIndex)
                  /\ S_index_html \notin Range(calls[i].req.kwargs.data.filenames)
        /\ \A i \in DOMAIN calls :
              IsUploadRequest(calls[i]) =>
                  /\ i = Len(calls) /\ pc = "done"
                  /\ i = (IF ListedExceptIndex = {} THEN 2 ELSE 3)
                  /\ \A j \in 2..(i - 1) : IsDeleteRequest(calls[j]) /\ calls[j].res.kind = "return"
                  /\ DOMAIN calls[i].req.kwargs.files = {S_index_html}
                  /\ calls[i].req.kwargs.files[S_index_html] = FileBytes(INDEX_TEMPLATE)
                  /\ result = calls[i].res
        /\ pc = "delete_all_initialize" => Len(calls) = (IF ListedExceptIndex = {} THEN 1 ELSE 2)
        /\ (pc = "done" /\ result.kind = "return") => IsUploadRequest(calls[Len(calls)])

\* A delete_all over a listing of "index.html" and "dir/index.html": the
\* nested path is deleted, the literal one is not, and the upload follows.
C10_Witness ==
    /\ pc = "done"
    /\ op.name = "delete_all"
    /\ result.kind = "return"
    /\ Len(calls) = 3
    /\ {Listed[i].path : i \in DOMAIN Listed} = {S_index_html, S_dir_index_html}
    /\ calls[2].req.kwargs.data.filenames = <<S_dir_index_html>>
    /\ IsUploadRequest(calls[3])

IsInfoRequest(c) == c.req.api /\ c.req.method = "GET" /\ c.req.url = <<BASE_URL, "/info">>

\* C12: download_all(save_to) with save_to a missing path or a regular file
\* raises ArgumentError, makes no network call and leaves the local files as
\* they were.
C12_DownloadAllRejectsNonDirectory ==
    (op.name = "download_all" /\ op.save_to_kind \in {"file", "missing"}) =>
        /\ pc = "done"
        /\ result.kind = "raise" /\ result.exc = "ArgumentError"
        /\ calls = <<>>
        /\ local = InitialLocal(op.save_to, op.save_to_kind)

\* A download_all whose save_to is a regular file: ArgumentError, no call, the
\* file untouched.
C12_Witness ==
    /\ pc = "done"
    /\ op.name = "download_all"
    /\ op.save_to_kind = "file"
    /\ result.exc = "ArgumentError"
    /\ calls = <<>>
    /\ local.files[op.save_to] = OldBytes

\* The listing a download_all got from its second call, and the entries of it
\* that are not directories, in the listing's order.
Downloaded == calls[2].res.value.files

DownloadedFiles == SelectSeq(Downloaded, LAMBDA file : ~file.is_directory)

HasListing ==
    /\ Len(calls) >= 2
    /\ calls[2].res.kind = "return"
    /\ "files" \in DOMAIN calls[2].res.value

\* https://{sitename}.neocities.org/{path}
PublicUrl(sitename, path) == <<<<"https://">> \o sitename \o <<".neocities.org/">>, path>>

IsRelative(path) == path = <<>> \/ path[1] # "/"

EntriesUnder(fs, d) ==
    {p \in fs.dirs \cup DOMAIN fs.files :
        Len(p) > Len(d) + 1 /\ SubSeq(p, 1, Len(d) + 1) = d \o <<"/">>}

\* C15: after a download_all into an empty existing directory the entries
\* under save_to are as many as the entries of the listing.
C15_DownloadAllReproducesListing ==
    (pc = "done" /\ op.name = "download_all" /\ op.save_to_kind = "empty_dir" /\ result.kind = "return") =>
        Cardinality(EntriesUnder(local, op.save_to)) = Len(Downloaded)

\* C16: a remote call that raised was the operation's last call, was made
\* once, and ended the operation with its own error: nothing is retried,
\* nothing swallowed, and no later step of the operation is run.
C16_FailedCallEndsOperation ==
    \A i \in DOMAIN calls :
        calls[i].res.kind = "raise" =>
            /\ i = Len(calls)
            /\ \A j \in 1..(i - 1) : calls[j].req # calls[i].req /\ calls[j].res.kind = "return"
            /\ pc = "done"
            /\ result = calls[i].res

\* A delete_all whose /delete request was answered with an error: the caller
\* gets ApiError and no /upload follows.
C16_Witness ==
    /\ pc = "done"
    /\ op.name = "delete_all"
    /\ Len(calls) = 2
    /\ IsDeleteRequest(calls[2])
    /\ calls[2].out.kind = "response"
    /\ result.kind = "raise" /\ result.exc = "ApiError"

\* The extension the specification gives a base name: from its last "." to
\* its end when that "." is not its final character, and empty otherwise.
ExtensionOfName(name) ==
    IF \E i \in 1..(Len(name) - 1) : name[i] = "." /\ \A j \in (i + 1)..Len(name) : name[j] # "."
    THEN LET i == CHOOSE k \in 1..(Len(name) - 1) : name[k] = "." /\ \A j \in (k + 1)..Len(name) : name[j] # "."
         IN  [j \in 1..(Len(name) - i + 1) |-> name[i + j - 1]]
    ELSE <<>>

\* C19: get_extension returns the part of the base name from its last "." to
\* its end when that "." is not the name's final character, and the empty
\* string otherwise (no ".", a final ".", no name): "file.txt" gives ".txt",
\* "file" gives "", ".txt" gives ".txt", "file.tar.gz" gives ".gz", "x." gives
\* "", "dir/" gives ""; the empty extension is not in the allow-list.
C19_GetExtension ==
    /\ <<>> \notin VALID_EXTENSIONS
    /\ (pc = "done" /\ op.name = "get_extension") =>
          /\ result.kind = "return"
          /\ result.value = ExtensionOfName(PathName(op.path))
          /\ "/" \notin Range(result.value)
          /\ result.value # <<>> => result.value[1] = "." /\ "." \notin Range(Tail(result.value))
          /\ op.path = S_file_txt => result.value = <<".", "t", "x", "t">>
          /\ op.path = S_file => result.value = <<>>
          /\ op.path = <<".", "t", "x", "t">> => result.value = <<".", "t", "x", "t">>
          /\ op.path = S_file_tar_gz => result.value = <<".", "g", "z">>
          /\ op.path = <<"x", ".">> => result.value = <<>>
          /\ op.path = S_dir_slash => result.value = <<>>
          /\ op.path \in {<<>>, <<"/">>, <<".">>} => result.value = <<>>

\* get_extension has been applied to "file.tar.gz" and gave ".gz".
C19_Witness ==
    /\ pc = "done"
    /\ op.name = "get_extension"
    /\ op.path = S_file_tar_gz
    /\ result.value = <<".", "g", "z">>

\* The names of the operations an invocation called, in order.
OperationNames == [i \in DOMAIN cli.operations |-> cli.operations[i].name]

\* The delete command had the user's consent: --yes, or the prompt answered yes.
Consent == cli.argv.yes \/ (cli.prompted /\ cli.answer = "y")

\* C17: the delete command (run once the client is constructed) calls
\* delete_all or delete_files only with --yes or after the prompt was
\* answered yes; when the answer is no, or when neither --all nor --file is
\* given, it calls no operation and the exit code is 0; the exit code is 0 as
\* well whenever the operation it called did not raise.
C17_DeleteNeedsConsent ==
    (pc = "cli_exit" /\ cli.ran /\ cli.argv.command = "delete") =>
        /\ \A i \in DOMAIN cli.operations :
              /\ Consent
              /\ cli.operations[i].name = (IF cli.argv.all THEN "delete_all" ELSE "delete_files")
        /\ cli.argv.yes => ~cli.prompted
        /\ ((cli.prompted /\ cli.answer = "N") \/ (~cli.argv.all /\ cli.argv.file = <<>>)) =>
              cli.operations = <<>> /\ cli.exit_code = 0
        /\ (cli.operations # <<>> /\ cli.operations[1].ended # "raise") => cli.exit_code = 0
        /\ (Consent /\ (cli.argv.all \/ cli.argv.file # <<>>)) => Len(cli.operations) = 1

\* delete --all without --yes, the prompt answered no: nothing is called and
\* the exit code is 0.
C17_Witness ==
    /\ pc = "cli_exit"
    /\ cli.ran
    /\ cli.argv.command = "delete"
    /\ cli.argv.all /\ ~cli.argv.yes
    /\ cli.prompted /\ cli.answer = "N"
    /\ cli.operations = <<>>
    /\ cli.exit_code = 0

\* C18 as stated: an invocation constructs one client and then calls exactly
\* one operation.
C18_ExactlyOneOperation ==
    (pc = "cli_exit" /\ cli.ran) => cli.clients = 1 /\ Len(cli.operations) = 1

\* Every --file item holds at most one ":".
WellFormedItems(file) == \A i \in DOMAIN file : Cardinality({k \in DOMAIN file[i] : file[i][k] = ":"}) <= 1

\* The operations an upload command calls when none of them raises.
UploadPlan(o) ==
    (IF o.dir \notin {NoneStr, <<>>} THEN <<"upload_dir">> ELSE <<>>)
        \o (IF o.file # <<>> /\ WellFormedItems(o.file) THEN <<"upload_files">> ELSE <<>>)

\* C18, amended: an invocation constructs exactly one client, before any
\* operation, and then calls: one operation for download, list, info and key;
\* for delete, delete_all (--all) or else delete_files (--file) when it has
\* consent, and nothing otherwise; for upload, upload_dir when --dir is given
\* and then upload_files when --file is given, two operations with both and
\* none with neither (an operation that raises ends the command, as does an
\* ill-formed --file item, found only after upload_dir).
C18_OperationsPerInvocation ==
    /\ cli.clients = (IF pc = "cli" THEN 0 ELSE 1)
    /\ cli.operations # <<>> => cli.ran
    /\ (pc = "cli_exit" /\ cli.ran) =>
          LET o == cli.argv
              plan == UploadPlan(o)
          IN  CASE o.command = "download" -> OperationNames = <<"download_all">>
                [] o.command = "list" -> OperationNames = <<"fetch_file_list">>
                [] o.command = "info" -> OperationNames = <<"fetch_info">>
                [] o.command = "key" -> OperationNames = <<"fetch_api_key">>
                [] o.command = "delete" ->
                      OperationNames =
                          IF ~Consent THEN <<>>
                          ELSE IF o.all THEN <<"delete_all">>
                          ELSE IF o.file # <<>> THEN <<"delete_files">>
                          ELSE <<>>
                [] o.command = "upload" ->
                      IF \E i \in DOMAIN cli.operations : cli.operations[i].ended = "raise"
                      THEN \E n \in 1..Len(plan) :
                              /\ OperationNames = SubSeq(plan, 1, n)
                              /\ cli.operations[n].ended = "raise"
                              /\ cli.exit_code = 1
                      ELSE OperationNames = plan

\* upload --dir foo --file foo.txt: upload_dir and then upload_files, exit code 0.
C18_Witness ==
    /\ pc = "cli_exit"
    /\ cli.argv.command = "upload"
    /\ cli.argv.dir = S_foo
    /\ cli.argv.file = <<S_foo_txt>>
    /\ OperationNames = <<"upload_dir", "upload_files">>
    /\ cli.exit_code = 0

\* C11: once delete_all has returned, the file list that follows holds
\* exactly one entry, "index.html", whatever the site held before.
C11_OnlyIndexAfterDeleteAll ==
    (pc = "listed" /\ op.name = "delete_all" /\ result.kind = "return") =>
        frame.listed = <<[path |-> S_index_html, is_directory |-> FALSE]>>

\* The entries of the upload's file_map whose local file has an allowed extension.
ValidUploads == {i \in DOMAIN op.file_map : HasAllowedSuffix(op.file_map[i][1])}

\* An upload has returned and the files have been listed after it.
UploadedAndListed ==
    pc = "listed" /\ op.name \in {"upload_files", "upload_dir"} /\ result.kind = "return"

CountBefore == Cardinality(SiteEntries(op.before))

\* C14 as stated: the file list grows by the number of files with an allowed
\* extension that were uploaded.
C14_CountGrowsByValidFiles ==
    UploadedAndListed => Len(frame.listed) - CountBefore = Cardinality(ValidUploads)

\* The destinations of the uploaded files that lie on the site, and the
\* directories above them.
UploadedPaths == {d \in {op.file_map[i][2] : i \in ValidUploads} : IsRelative(d)}

DirectoriesAbove(d) == {SubSeq(d, 1, k - 1) : k \in {j \in 2..Len(d) : d[j] = "/"}}

NewFiles == {d \in UploadedPaths : S_srv \o <<"/">> \o d \notin DOMAIN op.before.files}

NewDirectories ==
    {d \in UNION {DirectoriesAbove(u) : u \in UploadedPaths} : S_srv \o <<"/">> \o d \notin op.before.dirs}

\* C14, amended: the file list grows by the number of entries the upload
\* created on the site, which are the destinations that were not on the site
\* before (each once) and the directories created to hold them; it never
\* shrinks, and grows by the number of uploaded files with an allowed
\* extension when these go to as many destinations, none of them on the site
\* before, in directories that were.
C14_CountGrowsByNewEntries ==
    UploadedAndListed =>
        /\ Len(frame.listed) - CountBefore = Cardinality(NewFiles) + Cardinality(NewDirectories)
        /\ Len(frame.listed) >= CountBefore
        /\ (Cardinality(NewFiles) = Cardinality(ValidUploads) /\ NewDirectories = {}) =>
              Len(frame.listed) - CountBefore = Cardinality(ValidUploads)

\* upload_dir of a.html to the directory "a", which the site did not hold: one
\* file with an allowed extension is uploaded and the list grows by two.
C14_Witness ==
    /\ UploadedAndListed
    /\ op.name = "upload_dir"
    /\ op.dir_on_server = S_a
    /\ Cardinality(ValidUploads) = 1
    /\ S_srv \o <<"/">> \o S_a \notin op.before.dirs
    /\ Len(frame.listed) - CountBefore = 2

\* The delete_all was interrupted, or its wait refused, before its delete step.
EndedBeforeDelete ==
    /\ pc \in {"done", "listed"}
    /\ result.kind = "raise"
    /\ result.exc \in {"KeyboardInterrupt", "ValueError"}

\* C20: as long as the wait of delete_all is not over, and when delete_all
\* is interrupted during the listing or the wait, the site holds what it held
\* when the operation began and the only call made is the GET /list: no
\* /delete and no /upload has been issued.
C20_NothingDeletedBeforeTheWaitIsOver ==
    (op.name = "delete_all" /\ (pc \in {"delete_all_sleep", "delete_all_delete"} \/ EndedBeforeDelete)) =>
        /\ site = op.before
        /\ Len(calls) = 1
        /\ calls[1].method = "GET" /\ calls[1].path = "/list"
        /\ \A i \in DOMAIN calls : calls[i].path \notin {"/delete", "/upload"}

\* A delete_all interrupted during its wait, on a site that holds a.txt: the
\* listing was received, nothing else was called, a.txt is still there.
C20_Witness ==
    /\ pc = "done"
    /\ op.name = "delete_all"
    /\ op.waiting_seconds = 10
    /\ result.exc = "KeyboardInterrupt"
    /\ Len(calls) = 1
    /\ calls[1].res.kind = "return"
    /\ S_srv \o <<"/">> \o S_a_txt \in DOMAIN site.files
    /\ site = op.before

\* The GET of a listed file's public URL that failed: no answer at all, or an
\* answer whose status is not 200.
FileGetFailed(c) ==
    /\ ~c.req.api
    /\ (c.out.kind = "transport" \/ c.out.status # HTTP_OK)

\* C21: a download_all in which the GET of a listed file's public URL failed
\* at the transport level or was answered with a status other than 200 has
\* ended by raising ApiError to the caller, and the body of the failed answer
\* is not the content of the local file of that entry.
C21_FailedFileGetIsApiError ==
    (pc = "done" /\ op.name = "download_all") =>
        \A i \in DOMAIN calls :
            FileGetFailed(calls[i]) =>
                /\ result.kind = "raise"
                /\ result.exc = "ApiError"
                /\ LET local_path == PathJoin(op.save_to, calls[i].req.site_url[2])
                   IN  calls[i].out.kind = "response" =>
                           ~(local_path \in DOMAIN local.files /\ local.files[local_path] = calls[i].out.body)

\* C22: a call delete_files([]) returns a response equal to
\* {"result": "success"}, whatever operations came before it on the client
\* and whatever the caller did to the responses it was handed earlier.
C22_DeleteNothingReturnsSuccess ==
    (pc = "done" /\ op.name = "delete_files" /\ Len(op.filenames) = 0) =>
        result = Return(SUCCESS)

RECURSIVE Components(_, _, _, _)
\* The components of path p between its "/" characters, from character i on.
Components(p, i, current, acc) ==
    IF i > Len(p)
    THEN Append(acc, current)
    ELSE IF p[i] = "/"
         THEN Components(p, i + 1, <<>>, Append(acc, current))
         ELSE Components(p, i + 1, Append(current, p[i]), acc)

RECURSIVE Resolved(_, _, _)
\* The components left once "", "." and ".." are resolved; a ".." that
\* climbs above the start is kept.
Resolved(comps, i, acc) ==
    IF i > Len(comps)
    THEN acc
    ELSE IF comps[i] \in {<<>>, <<".">>}
         THEN Resolved(comps, i + 1, acc)
         ELSE IF comps[i] = <<".", ".">> /\ Len(acc) > 0 /\ acc[Len(acc)] # <<".", ".">>
              THEN Resolved(comps, i + 1, SubSeq(acc, 1, Len(acc) - 1))
              ELSE Resolved(comps, i + 1, Append(acc, comps[i]))

IsAbsolute(p) == Len(p) > 0 /\ p[1] = "/"

\* The place path p names is the directory d or lies under it.
LiesUnder(p, d) ==
    LET a == Resolved(Components(p, 1, <<>>, <<>>), 1, <<>>)
        b == Resolved(Components(d, 1, <<>>, <<>>), 1, <<>>)
    IN  /\ IsAbsolute(p) = IsAbsolute(d)
        /\ Len(a) >= Len(b)
        /\ SubSeq(a, 1, Len(b)) = b

\* The local files the download_all under way has created or overwritten.
Written ==
    LET before == InitialLocal(op.save_to, op.save_to_kind)
    IN  {p \in DOMAIN local.files : p \notin DOMAIN before.files \/ local.files[p] # before.files[p]}

\* C23: every local file a download_all has created or overwritten lies under
\* save_to, whatever paths the listing holds.
C23_DownloadAllWritesUnderSaveTo ==
    op.name = "download_all" => \A p \in Written : LiesUnder(p, op.save_to)

=============================================================================
